---------------------------- MODULE Spec2Model ----------------------------
(***************************************************************************)
(* django-getpaid: the Payment status machine and its amount ledger        *)
(* (getpaid/models.py, AbstractPayment), the PULL flow                     *)
(* (fetch_and_update_status) and the PUSH flow (the callback views of      *)
(* getpaid/views.py and getpaid/rest_framework/views.py).                  *)
(*                                                                         *)
(* A payment is a record of the fields the status machine reads and        *)
(* writes.  Every method of AbstractPayment is an operator that maps the   *)
(* in-memory instance (and the gateway's answer, an input) to a call       *)
(* result: the instance afterwards, the outcome ("ok" or the exception     *)
(* raised), the processor methods invoked and the status assignments made. *)
(* Amounts are integers (the smallest currency unit).                      *)
(***************************************************************************)
EXTENDS Integers, Sequences, FiniteSets

\* ------------------------------------------------------------- bounds
\* Largest amount an order requires / a caller or the gateway names.
MaxAmount == 2
\* Cap on the magnitude of the ledger fields (steps beyond it are cut).
MaxTotal == 2
\* Cap on the number of callback deliveries in the PUSH specification.
MaxDeliveries == 4
\* The fraud messages a processor or a reviewer writes: 0 (the default "")
\* to MaxMessage.
MaxMessage == 2
\* The payout ids and the failure codes a gateway answers: 1 to the bound.
MaxPayoutId == 2
MaxFailedCode == 2
\* The most payments attached to one order.
MaxPayments == 2

\* ------------------------------------------------------------- values
\* amount=None (the default of every amount parameter).
None == -100
Amounts == 0..MaxAmount
OptAmounts == {None} \cup Amounts

ps_NEW == "new"
ps_PREPARED == "prepared"
ps_PRE_AUTH == "pre-auth"
ps_IN_CHARGE == "charge_started"
ps_PARTIAL == "partially_paid"
ps_PAID == "paid"
ps_FAILED == "failed"
ps_REFUND_STARTED == "refund_started"
ps_REFUNDED == "refunded"
Statuses ==
    {ps_NEW, ps_PREPARED, ps_PRE_AUTH, ps_IN_CHARGE, ps_PARTIAL, ps_PAID,
     ps_FAILED, ps_REFUND_STARTED, ps_REFUNDED}

TransitionNotAllowed == "TransitionNotAllowed"
ValueError == "ValueError"
ChargeFailure == "ChargeFailure"
GetPaidException == "GetPaidException"

\* The worker processes (requests, shells, tasks) holding an instance.
Procs == {1, 2}

\* A fresh Payment: status defaults to NEW, the ledger fields to 0.
AbstractPayment(required) ==
    [status |-> ps_NEW, amount_required |-> required, amount_locked |-> 0,
     amount_paid |-> 0, amount_refunded |-> 0]

\* No instance held (an idle worker).
NoPayment ==
    [status |-> "none", amount_required |-> 0, amount_locked |-> 0,
     amount_paid |-> 0, amount_refunded |-> 0]

fully_paid(self) == self.amount_paid >= self.amount_required

\* ------------------------------------------------------ call results
Returns(self, calls) ==
    [pay |-> self, outcome |-> "ok", calls |-> calls, edges |-> <<>>,
     saved |-> FALSE]
Raises(self, exc, calls) ==
    [pay |-> self, outcome |-> exc, calls |-> calls, edges |-> <<>>,
     saved |-> FALSE]
\* A processor method was invoked; `answer` is "ok" or "raise".
ProcessorCall(method, amount) == <<[method |-> method, amount |-> amount]>>
AfterProcessor(self, answer, calls) ==
    IF answer = "raise" THEN Raises(self, GetPaidException, calls)
    ELSE Returns(self, calls)

\* ---------------------------------------------- django_fsm.transition
has_transition(self, sources) == self.status \in sources

\* not has_transition / not conditions_met: raise before the body runs.
transition_guard_mut(self, sources, cond) == TRUE
transition_guard(self, sources, cond) ==
    has_transition(self, sources) /\ cond

\* The decorated method: guard, then the body, then the state is set to the
\* target; an exception of the body is re-raised with the state left alone
\* (no on_error state is declared), the body's other writes staying.
transition(self, name, sources, target, cond, body) ==
    IF ~transition_guard(self, sources, cond)
    THEN Raises(self, TransitionNotAllowed, <<>>)
    ELSE IF body.outcome # "ok" THEN body
    ELSE [pay |-> [body.pay EXCEPT !.status = target],
          outcome |-> "ok",
          calls |-> body.calls,
          edges |-> <<[from |-> self.status, to |-> target, via |-> name]>>,
          saved |-> FALSE]

\* ------------------------------------------- the declared transitions
confirm_prepared_source == {ps_NEW}
confirm_lock_source == {ps_NEW, ps_PREPARED}
confirm_charge_sent_source == {ps_PRE_AUTH}
confirm_payment_source_mut ==
    {ps_PRE_AUTH, ps_PREPARED, ps_IN_CHARGE, ps_PARTIAL, ps_PAID}
confirm_payment_source == {ps_PRE_AUTH, ps_PREPARED, ps_IN_CHARGE, ps_PARTIAL}
mark_as_paid_source == {ps_PARTIAL}
release_lock_source == {ps_PRE_AUTH}
start_refund_source == {ps_PAID, ps_PARTIAL}
cancel_refund_source == {ps_REFUND_STARTED}
confirm_refund_source == {ps_REFUND_STARTED}
mark_as_refunded_source == {ps_REFUND_STARTED, ps_PARTIAL}
fail_source == {ps_NEW, ps_PRE_AUTH, ps_PREPARED}

_check_fully_paid(self) == fully_paid(self)
_is_full_refund(self) == self.amount_refunded = self.amount_paid

confirm_prepared(self) ==
    transition(self, "confirm_prepared", confirm_prepared_source, ps_PREPARED,
               TRUE, Returns(self, <<>>))

confirm_lock(self, amount) ==
    LET a == IF amount = None THEN self.amount_required ELSE amount
    IN transition(self, "confirm_lock", confirm_lock_source, ps_PRE_AUTH, TRUE,
                  Returns([self EXCEPT !.amount_locked = a], <<>>))

confirm_charge_sent(self) ==
    transition(self, "confirm_charge_sent", confirm_charge_sent_source,
               ps_IN_CHARGE, TRUE, Returns(self, <<>>))

confirm_payment(self, amount) ==
    LET locked == IF amount = None /\ self.amount_locked = 0
                  THEN self.amount_required ELSE self.amount_locked
        a == IF amount = None THEN locked ELSE amount
    IN transition(self, "confirm_payment", confirm_payment_source, ps_PARTIAL,
                  TRUE,
                  Returns([self EXCEPT !.amount_locked = locked,
                                       !.amount_paid = @ + a], <<>>))

mark_as_paid(self) ==
    transition(self, "mark_as_paid", mark_as_paid_source, ps_PAID,
               _check_fully_paid(self), Returns(self, <<>>))

release_lock(self, answer) ==
    transition(self, "release_lock", release_lock_source, ps_REFUNDED, TRUE,
               AfterProcessor(
                   [self EXCEPT !.amount_refunded = self.amount_locked,
                                !.amount_locked = 0],
                   answer, ProcessorCall("release_lock", None)))

start_refund_allowed_mut(self, a) == TRUE
start_refund_allowed(self, a) == ~(a > self.amount_paid)

start_refund(self, amount, answer) ==
    LET a == IF amount = None THEN self.amount_paid ELSE amount
    IN transition(self, "start_refund", start_refund_source, ps_REFUND_STARTED,
                  TRUE,
                  IF ~start_refund_allowed(self, a)
                  THEN Raises(self, ValueError, <<>>)
                  ELSE AfterProcessor(self, answer,
                                      ProcessorCall("start_refund", a)))

cancel_refund(self, answer) ==
    transition(self, "cancel_refund", cancel_refund_source, ps_PARTIAL, TRUE,
               AfterProcessor(self, answer,
                              ProcessorCall("cancel_refund", None)))

confirm_refund(self, amount) ==
    LET a == IF amount = None THEN self.amount_paid ELSE amount
    IN transition(self, "confirm_refund", confirm_refund_source, ps_PARTIAL,
                  TRUE,
                  Returns([self EXCEPT !.amount_refunded = @ + a], <<>>))

mark_as_refunded(self) ==
    transition(self, "mark_as_refunded", mark_as_refunded_source, ps_REFUNDED,
               _is_full_refund(self), Returns(self, <<>>))

fail(self) ==
    transition(self, "fail", fail_source, ps_FAILED, TRUE, Returns(self, <<>>))


\* ------------------------------------------------ can_proceed, getattr
TransitionNames ==
    {"confirm_prepared", "confirm_lock", "confirm_charge_sent",
     "confirm_payment", "mark_as_paid", "release_lock", "start_refund",
     "cancel_refund", "confirm_refund", "mark_as_refunded", "fail"}

\* The source list each @transition decorator declares.
Sources(name) ==
    CASE name = "confirm_prepared" -> confirm_prepared_source
      [] name = "confirm_lock" -> confirm_lock_source
      [] name = "confirm_charge_sent" -> confirm_charge_sent_source
      [] name = "confirm_payment" -> confirm_payment_source
      [] name = "mark_as_paid" -> mark_as_paid_source
      [] name = "release_lock" -> release_lock_source
      [] name = "start_refund" -> start_refund_source
      [] name = "cancel_refund" -> cancel_refund_source
      [] name = "confirm_refund" -> confirm_refund_source
      [] name = "mark_as_refunded" -> mark_as_refunded_source
      [] name = "fail" -> fail_source

\* The conditions=[...] each @transition decorator declares.
Conditions(self, name) ==
    CASE name = "mark_as_paid" -> _check_fully_paid(self)
      [] name = "mark_as_refunded" -> _is_full_refund(self)
      [] OTHER -> TRUE

\* django_fsm.can_proceed(bound_method)
can_proceed(self, name) ==
    has_transition(self, Sources(name)) /\ Conditions(self, name)

\* getattr(self, callback_name)(amount=amount): the methods without an
\* amount parameter take it in **kwargs and pass it to their hook.
CallByName(self, name, amount, answer) ==
    CASE name = "confirm_prepared" -> confirm_prepared(self)
      [] name = "confirm_lock" -> confirm_lock(self, amount)
      [] name = "confirm_charge_sent" -> confirm_charge_sent(self)
      [] name = "confirm_payment" -> confirm_payment(self, amount)
      [] name = "mark_as_paid" -> mark_as_paid(self)
      [] name = "release_lock" -> release_lock(self, answer)
      [] name = "start_refund" -> start_refund(self, amount, answer)
      [] name = "cancel_refund" -> cancel_refund(self, answer)
      [] name = "confirm_refund" -> confirm_refund(self, amount)
      [] name = "mark_as_refunded" -> mark_as_refunded(self)
      [] name = "fail" -> fail(self)

\* ------------------------------------------------------------- charge
\* What processor.charge answers: a ChargeResponse holding amount_charged,
\* or success, or async_call, or none of them; or it raises.
ChargeResults ==
    [kind : {"success", "async_call", "nothing", "raise"},
     amount_charged : {None}]
    \cup [kind : {"amount_charged"}, amount_charged : Amounts]

charge_too_much_mut(self, a) == a >= self.amount_locked
charge_too_much(self, a) == a > self.amount_locked

charge(self, amount, result) ==
    LET a == IF amount = None THEN self.amount_locked ELSE amount
        call == ProcessorCall("charge", a)
    IN IF charge_too_much(self, a) THEN Raises(self, ValueError, <<>>)
       ELSE IF result.kind = "raise" THEN Raises(self, ChargeFailure, call)
       ELSE IF result.kind \in {"amount_charged", "success"} THEN
           LET paid == IF result.kind = "amount_charged"
                       THEN result.amount_charged ELSE a
               p1 == [self EXCEPT !.amount_paid = paid,
                                  !.amount_locked = @ - paid]
               r1 == confirm_payment(p1, None)
               r2 == IF can_proceed(r1.pay, "mark_as_paid")
                     THEN mark_as_paid(r1.pay) ELSE Returns(r1.pay, <<>>)
           IN IF r1.outcome # "ok" THEN [r1 EXCEPT !.calls = call]
              ELSE [pay |-> r2.pay, outcome |-> "ok", calls |-> call,
                    edges |-> r1.edges \o r2.edges, saved |-> TRUE]
       ELSE IF result.kind = "async_call" THEN
           LET r1 == IF can_proceed(self, "confirm_charge_sent")
                     THEN confirm_charge_sent(self) ELSE Returns(self, <<>>)
           IN [pay |-> r1.pay, outcome |-> "ok", calls |-> call,
               edges |-> r1.edges, saved |-> TRUE]
       ELSE Raises(self, ChargeFailure, call)

\* ------------------------------------------ fetch_and_update_status
\* What processor.fetch_payment_status answers: the proposed callback (or
\* none) and the amount (or none).
NoCallback == "none"
\* The callbacks with an amount parameter; the others take the report's
\* amount in **kwargs and hand it to a hook that ignores it.
WithAmount ==
    {"confirm_lock", "confirm_payment", "start_refund", "confirm_refund"}
\* The callbacks that invoke a processor method.
WithProcessor == {"release_lock", "start_refund", "cancel_refund"}
StatusReports ==
    [callback : WithAmount, amount : OptAmounts]
    \cup [callback : (TransitionNames \ WithAmount) \cup {NoCallback},
          amount : {None}]

NoReport ==
    [callback |-> NoCallback, amount |-> None, saved |-> FALSE,
     exception |-> "none"]
Reported(report, saved, exception) ==
    [callback |-> report.callback, amount |-> report.amount,
     saved |-> saved, exception |-> exception]

\* The exceptions the try block catches.
Caught_mut == {TransitionNotAllowed}
Caught == {GetPaidException, TransitionNotAllowed}

\* amount = status_report.get("amount", None)
callback_amount_mut(report) == None
callback_amount(report) == report.amount

\* The call result, with the status report the method returns (when it
\* returns: an exception that is not caught propagates).
fetch_and_update_status(self, report, answer) ==
    LET r == CallByName(self, report.callback, callback_amount(report),
                        answer)
    IN IF report.callback = NoCallback
       THEN [call |-> Returns(self, <<>>),
             report |-> Reported(report, FALSE, "none")]
       ELSE IF ~can_proceed(self, report.callback)
       THEN [call |-> Returns(self, <<>>),
             report |-> Reported(report, FALSE, "none")]
       ELSE IF r.outcome = "ok"
       THEN [call |-> [r EXCEPT !.saved = TRUE],
             report |-> Reported(report, TRUE, "none")]
       ELSE IF r.outcome \in Caught
       THEN [call |-> [r EXCEPT !.outcome = "ok"],
             report |-> Reported(report, FALSE, r.outcome)]
       ELSE [call |-> r, report |-> NoReport]

\* ------------------------------------------------------ fraud review
fs_UNKNOWN == "unknown"
fs_ACCEPTED == "accepted"
fs_REJECTED == "rejected"
fs_CHECK == "check"
FraudStatuses == {fs_UNKNOWN, fs_ACCEPTED, fs_REJECTED, fs_CHECK}

\* The message parameter: 0 is the default "".
Messages == 0..MaxMessage
MANUAL_REJECT == "==MANUAL REJECT=="
MANUAL_ACCEPT == "==MANUAL ACCEPT=="

\* The fraud fields of a fresh Payment: fraud_status defaults to UNKNOWN,
\* fraud_message is blank.  The message is the sequence of its parts.
FraudFields == [fraud_status |-> fs_UNKNOWN, fraud_message |-> <<>>]

\* @transition(field=fraud_status, source=..., target=...): refuse outside
\* the source, else run the body and set fraud_status to the target.
fraud_transition(self, name, sources, target, message) ==
    IF self.fraud_status \notin sources
    THEN [pay |-> self, outcome |-> TransitionNotAllowed, edges |-> <<>>]
    ELSE [pay |-> [fraud_status |-> target, fraud_message |-> message],
          outcome |-> "ok",
          edges |-> <<[from |-> self.fraud_status, to |-> target,
                       via |-> name]>>]

___mark_as_fraud_source == {fs_UNKNOWN}
___mark_as_legit_source == {fs_UNKNOWN}
___mark_for_check_source == {fs_UNKNOWN}
mark_as_fraud_source_mut == {fs_CHECK, fs_ACCEPTED}
mark_as_fraud_source == {fs_CHECK}
mark_as_legit_source == {fs_CHECK}

___mark_as_fraud(self, message) ==
    fraud_transition(self, "___mark_as_fraud", ___mark_as_fraud_source,
                     fs_REJECTED, <<message>>)
___mark_as_legit(self, message) ==
    fraud_transition(self, "___mark_as_legit", ___mark_as_legit_source,
                     fs_ACCEPTED, <<message>>)
___mark_for_check(self, message) ==
    fraud_transition(self, "___mark_for_check", ___mark_for_check_source,
                     fs_CHECK, <<message>>)
mark_as_fraud(self, message) ==
    fraud_transition(self, "mark_as_fraud", mark_as_fraud_source,
                     fs_REJECTED,
                     self.fraud_message \o <<MANUAL_REJECT, message>>)
mark_as_legit(self, message) ==
    fraud_transition(self, "mark_as_legit", mark_as_legit_source,
                     fs_ACCEPTED,
                     self.fraud_message \o <<MANUAL_ACCEPT, message>>)

FraudMethods ==
    {"___mark_as_fraud", "___mark_as_legit", "___mark_for_check",
     "mark_as_fraud", "mark_as_legit"}
FraudCallByName(self, name, message) ==
    CASE name = "___mark_as_fraud" -> ___mark_as_fraud(self, message)
      [] name = "___mark_as_legit" -> ___mark_as_legit(self, message)
      [] name = "___mark_for_check" -> ___mark_for_check(self, message)
      [] name = "mark_as_fraud" -> mark_as_fraud(self, message)
      [] name = "mark_as_legit" -> mark_as_legit(self, message)

\* ------------------------------------------------------------ payout
PayoutStatus_NEW == "NEW"
PayoutStatus_SUCCESS == "SUCCESS"
PayoutStatus_FAILED == "FAILED"
PayoutStatuses ==
    {PayoutStatus_NEW, PayoutStatus_SUCCESS, PayoutStatus_FAILED}

PayoutFailure == "PayoutFailure"
NotImplementedError == "NotImplementedError"

\* A blank CharField (external_id, failed_code).
Blank == 0
PayoutIds == 1..MaxPayoutId
FailedCodes == 1..MaxFailedCode

\* A fresh Payout: status defaults to NEW, external_id and failed_code are
\* blank.
AbstractPayout ==
    [status |-> PayoutStatus_NEW, external_id |-> Blank,
     failed_code |-> Blank]

mark_as_success_source == {PayoutStatus_NEW}
mark_as_failed_source_mut == {PayoutStatus_NEW, PayoutStatus_SUCCESS}
mark_as_failed_source == {PayoutStatus_NEW}

mark_as_success(self) ==
    transition(self, "mark_as_success", mark_as_success_source,
               PayoutStatus_SUCCESS, TRUE, Returns(self, <<>>))
mark_as_failed(self) ==
    transition(self, "mark_as_failed", mark_as_failed_source,
               PayoutStatus_FAILED, TRUE, Returns(self, <<>>))

\* What _get_client_response meets: a client without a payout method, a
\* client that returns a response holding a payoutId, or a client that
\* raises PayoutFailure holding the gateway's response and its status code.
ClientAnswers ==
    [kind : {"unsupported"}, payoutId : {Blank}, code : {Blank}]
    \cup [kind : {"response"}, payoutId : PayoutIds, code : {Blank}]
    \cup [kind : {"PayoutFailure"}, payoutId : {Blank}, code : FailedCodes]

\* response["payout"]["payoutId"]
response_payoutId(answer) == answer.payoutId
\* e.context["raw_response"].json().get("status").get("code")
response_code_mut(answer) == Blank
response_code(answer) == answer.code

\* An exception other than PayoutFailure leaves the try block uncaught; one
\* raised in the except block replaces the PayoutFailure.
start_payout(self, answer) ==
    LET call == ProcessorCall("payout", None)
    IN IF answer.kind = "unsupported"
       THEN Raises(self, NotImplementedError, <<>>)
       ELSE IF answer.kind = "response" THEN
           LET p1 == [self EXCEPT !.external_id = response_payoutId(answer)]
               r1 == mark_as_success(p1)
           IN IF r1.outcome # "ok" THEN [r1 EXCEPT !.calls = call]
              ELSE [r1 EXCEPT !.calls = call, !.saved = TRUE]
       ELSE
           LET p1 == [self EXCEPT !.failed_code = response_code(answer)]
               r1 == mark_as_failed(p1)
           IN IF r1.outcome # "ok" THEN [r1 EXCEPT !.calls = call]
              ELSE [r1 EXCEPT !.calls = call, !.saved = TRUE,
                              !.outcome = PayoutFailure]

\* ------------------------------------------------------------- order
ValidationError == "ValidationError"

\* A fresh Order: no payment is attached to it.
AbstractOrder == [payments |-> <<>>]
\* The orders with up to MaxPayments payments, each in any status.
Orders ==
    {[payments |-> rows] :
        rows \in UNION {[1..n -> [status : Statuses]] : n \in 0..MaxPayments}}

\* QuerySet.exclude(status=...) and QuerySet.exists().
exclude(rows, status) ==
    LET keep(row) == row.status # status IN SelectSeq(rows, keep)
exists_mut(rows) == Len(rows) > 1
exists(rows) == Len(rows) > 0

is_ready_for_payment(self) ==
    IF exists(exclude(self.payments, ps_FAILED))
    THEN [outcome |-> ValidationError]
    ELSE [outcome |-> "ok", value |-> TRUE]

\* =============================================================== state
VARIABLES
    db,          \* the payment's committed row
    mem,         \* each worker's in-memory instance
    initial,     \* ConcurrentTransitionMixin: the status each instance was
                 \* loaded or last saved with
    released,    \* release_lock has run on the payment
    pc,          \* each worker's place in a callback request
    lock,        \* the holder of the row lock (0: free)
    blocked,     \* the request arrived while the row was locked
    deliveries,  \* callback requests received so far
    serial,      \* the row if the committed callbacks had run one by one
    last,        \* the last method call: its kind, its outcome ("ok" or
                 \* the exception raised) and whether the method saved
    fraud,       \* the fraud review fields of the caller's instance
    payout,      \* the caller's Payout instance
    payoutRow,   \* the payout's committed row
    order        \* an Order and the rows of the payments attached to it

vars ==
    <<db, mem, initial, released, pc, lock, blocked, deliveries, serial,
      last, fraud, payout, payoutRow, order>>
pushVars == <<pc, lock, blocked, deliveries, serial>>
\* What the payment's status machine and ledger leave alone.
sideVars == <<fraud, payout, payoutRow, order>>
\* What the other machines leave alone.
paymentVars ==
    <<db, mem, initial, released, pc, lock, blocked, deliveries, serial>>

\* The process that calls the methods directly (a view, a task, a shell).
Caller == CHOOSE p \in Procs : \A q \in Procs : p <= q

InBounds(pay) ==
    /\ pay.amount_locked \in -1..MaxTotal
    /\ pay.amount_paid \in 0..MaxTotal
    /\ pay.amount_refunded \in 0..MaxTotal

\* Payment.objects.create(...): the row and the caller's instance of it.
Init ==
    /\ \E required \in 1..MaxAmount :
          /\ db = AbstractPayment(required)
          /\ mem = [p \in Procs |->
                      IF p = Caller THEN AbstractPayment(required)
                      ELSE NoPayment]
          /\ serial = AbstractPayment(required)
    /\ initial = [p \in Procs |-> IF p = Caller THEN ps_NEW ELSE "none"]
    /\ released = FALSE
    /\ pc = [p \in Procs |-> "idle"]
    /\ lock = 0
    /\ blocked = [p \in Procs |-> FALSE]
    /\ deliveries = 0
    /\ last = [op |-> "create", outcome |-> "ok", saved |-> TRUE]
    /\ fraud = FraudFields
    /\ payout = AbstractPayout
    /\ payoutRow = AbstractPayout
    /\ order = AbstractOrder

\* ConcurrentTransitionMixin._do_update: UPDATE ... WHERE status = the
\* status the instance was loaded with; no row updated raises.
ConcurrentTransition == "ConcurrentTransition"
save_allowed(p) == db.status = initial[p]

\* The caller of a transition method persists the field changes when the
\* method returns (the methods themselves do not save).
caller_saves(op, r) == op \in TransitionNames /\ r.outcome = "ok"

\* What `last` keeps of the method called: the status transitions are one
\* kind.
MethodKind(op) == IF op \in TransitionNames THEN "transition" ELSE op

\* A method call on p's instance: the instance keeps what the method wrote
\* (also when it raised); save() writes the row.
Apply(p, op, r) ==
    LET saving == r.saved \/ caller_saves(op, r)
        conflict == saving /\ ~save_allowed(p)
        written == saving /\ save_allowed(p)
    IN /\ InBounds(r.pay)
       /\ mem' = [mem EXCEPT ![p] = r.pay]
       /\ db' = IF written THEN r.pay ELSE db
       /\ initial' = IF written THEN [initial EXCEPT ![p] = r.pay.status]
                     ELSE initial
       /\ released' = (released \/ \E i \in 1..Len(r.calls) :
                                      r.calls[i].method = "release_lock")
       /\ last' = [op |-> MethodKind(op),
                   outcome |-> IF conflict THEN ConcurrentTransition
                               ELSE r.outcome,
                   saved |-> r.saved /\ written]
       /\ UNCHANGED pushVars
       /\ UNCHANGED sideVars

\* What the processor method a transition invokes does: it returns or it
\* raises; a method that invokes none has one answer.
Answers == {"ok", "raise"}
AnswersTo(name) == IF name \in WithProcessor THEN Answers ELSE {"ok"}

Call_confirm_prepared ==
    Apply(Caller, "confirm_prepared", confirm_prepared(mem[Caller]))

Call_confirm_lock ==
    \E amount \in OptAmounts :
        Apply(Caller, "confirm_lock", confirm_lock(mem[Caller], amount))

Call_confirm_charge_sent ==
    Apply(Caller, "confirm_charge_sent", confirm_charge_sent(mem[Caller]))

Call_confirm_payment ==
    \E amount \in OptAmounts :
        Apply(Caller, "confirm_payment",
              confirm_payment(mem[Caller], amount))

Call_mark_as_paid ==
    Apply(Caller, "mark_as_paid", mark_as_paid(mem[Caller]))

Call_release_lock ==
    \E answer \in Answers :
        Apply(Caller, "release_lock", release_lock(mem[Caller], answer))

Call_start_refund ==
    \E amount \in OptAmounts, answer \in Answers :
        Apply(Caller, "start_refund",
              start_refund(mem[Caller], amount, answer))

Call_cancel_refund ==
    \E answer \in Answers :
        Apply(Caller, "cancel_refund", cancel_refund(mem[Caller], answer))

Call_confirm_refund ==
    \E amount \in OptAmounts :
        Apply(Caller, "confirm_refund", confirm_refund(mem[Caller], amount))

Call_mark_as_refunded ==
    Apply(Caller, "mark_as_refunded", mark_as_refunded(mem[Caller]))

Call_fail ==
    Apply(Caller, "fail", fail(mem[Caller]))

Call_charge ==
    \E amount \in OptAmounts, result \in ChargeResults :
        Apply(Caller, "charge", charge(mem[Caller], amount, result))

Call_fetch_and_update_status ==
    \E report \in StatusReports :
      \E answer \in AnswersTo(report.callback) :
        Apply(Caller, "fetch_and_update_status",
              fetch_and_update_status(mem[Caller], report, answer).call)

Next ==
    \/ Call_confirm_prepared
    \/ Call_confirm_lock
    \/ Call_confirm_charge_sent
    \/ Call_confirm_payment
    \/ Call_mark_as_paid
    \/ Call_release_lock
    \/ Call_start_refund
    \/ Call_cancel_refund
    \/ Call_confirm_refund
    \/ Call_mark_as_refunded
    \/ Call_fail
    \/ Call_charge
    \/ Call_fetch_and_update_status

Spec == Init /\ [][Next]_vars

\* ------------------------------------------------- the PUSH flow
\* What a callback request asks for: one transition, with its amount.
PushCallbacks ==
    {"confirm_prepared", "confirm_lock", "confirm_payment", "mark_as_paid",
     "fail"}
PushEvents ==
    [callback : PushCallbacks \cap WithAmount, amount : OptAmounts]
    \cup [callback : PushCallbacks \ WithAmount, amount : {None}]

\* processor.handle_paywall_callback: run the transition the request asks
\* for when it can proceed; the instance is saved afterwards.
handle_paywall_callback(self, ev) ==
    IF can_proceed(self, ev.callback)
    THEN CallByName(self, ev.callback, ev.amount, "ok").pay
    ELSE self

\* select_for_update(of=("self", "order")): the SELECT waits until no other
\* transaction holds the row lock.
select_for_update_mut(p) == TRUE
select_for_update(p) == lock = 0

\* CallbackDetailView.post is entered: transaction.atomic begins.
CallbackArrive(p) ==
    /\ pc[p] = "idle"
    /\ deliveries < MaxDeliveries
    /\ pc' = [pc EXCEPT ![p] = "waiting"]
    /\ blocked' = [blocked EXCEPT ![p] = (lock # 0)]
    /\ deliveries' = deliveries + 1
    /\ UNCHANGED <<db, mem, initial, released, lock, serial, last>>
    /\ UNCHANGED sideVars

\* Payment.objects.select_related("order").select_for_update(...).get(pk=pk)
CallbackLoad(p) ==
    /\ pc[p] = "waiting"
    /\ select_for_update(p)
    /\ lock' = p
    /\ mem' = [mem EXCEPT ![p] = db]
    /\ initial' = [initial EXCEPT ![p] = db.status]
    /\ pc' = [pc EXCEPT ![p] = "loaded"]
    /\ UNCHANGED <<db, released, blocked, deliveries, serial, last>>
    /\ UNCHANGED sideVars

\* payment.handle_paywall_callback(request), then the transaction commits
\* (or rolls back when save raises ConcurrentTransition) and the row lock
\* is released; the request's instance is dropped.
CallbackHandle(p) ==
    /\ pc[p] = "loaded"
    /\ \E ev \in PushEvents :
          LET after == handle_paywall_callback(mem[p], ev)
          IN /\ InBounds(after)
             /\ InBounds(handle_paywall_callback(serial, ev))
             /\ IF save_allowed(p)
                THEN /\ db' = after
                     /\ serial' = handle_paywall_callback(serial, ev)
                ELSE UNCHANGED <<db, serial>>
    /\ lock' = IF lock = p THEN 0 ELSE lock
    /\ mem' = [mem EXCEPT ![p] = NoPayment]
    /\ initial' = [initial EXCEPT ![p] = "none"]
    /\ pc' = [pc EXCEPT ![p] = "idle"]
    /\ blocked' = [blocked EXCEPT ![p] = FALSE]
    /\ UNCHANGED <<released, deliveries, last>>
    /\ UNCHANGED sideVars

\* The row exists; no worker holds an instance yet.
InitPush ==
    /\ \E required \in 1..MaxAmount :
          /\ db = AbstractPayment(required)
          /\ serial = AbstractPayment(required)
    /\ mem = [p \in Procs |-> NoPayment]
    /\ initial = [p \in Procs |-> "none"]
    /\ released = FALSE
    /\ pc = [p \in Procs |-> "idle"]
    /\ lock = 0
    /\ blocked = [p \in Procs |-> FALSE]
    /\ deliveries = 0
    /\ last = [op |-> "create", outcome |-> "ok", saved |-> TRUE]
    /\ fraud = FraudFields
    /\ payout = AbstractPayout
    /\ payoutRow = AbstractPayout
    /\ order = AbstractOrder

NextPush ==
    \E p \in Procs :
        \/ CallbackArrive(p)
        \/ CallbackLoad(p)
        \/ CallbackHandle(p)

SpecPush == InitPush /\ [][NextPush]_vars

\* ------------------------------------------------- the PULL flow
\* A worker obtains an instance of the payment (a plain query: no row lock
\* is asked for) and enters fetch_and_update_status; fetch_status is on its
\* way to the gateway.
PullLoad(p) ==
    /\ pc[p] = "idle"
    /\ deliveries < MaxDeliveries
    /\ mem' = [mem EXCEPT ![p] = db]
    /\ initial' = [initial EXCEPT ![p] = db.status]
    /\ pc' = [pc EXCEPT ![p] = "pulling"]
    /\ deliveries' = deliveries + 1
    /\ UNCHANGED <<db, released, lock, blocked, serial, last>>
    /\ UNCHANGED sideVars

\* The status report arrives: the proposed callback runs on the worker's
\* instance and self.save() writes the row (the UPDATE waits while a
\* callback request holds the row lock, and is refused when the row's
\* status is not the one the instance was loaded with); the atomic block
\* ends and the worker drops the instance.
PullUpdate(p) ==
    /\ pc[p] = "pulling"
    /\ \E report \in StatusReports :
        \E answer \in AnswersTo(report.callback) :
          LET f == fetch_and_update_status(mem[p], report, answer)
              inOrder == fetch_and_update_status(serial, report, answer)
              conflict == f.call.saved /\ ~save_allowed(p)
              written == f.call.saved /\ save_allowed(p)
          IN /\ InBounds(f.call.pay)
             /\ InBounds(inOrder.call.pay)
             /\ f.call.saved => lock = 0
             /\ db' = IF written THEN f.call.pay ELSE db
             /\ serial' = IF written /\ inOrder.call.saved
                          THEN inOrder.call.pay ELSE serial
             /\ last' = [op |-> "fetch_and_update_status",
                         outcome |-> IF conflict THEN ConcurrentTransition
                                     ELSE f.call.outcome,
                         saved |-> written]
    /\ mem' = [mem EXCEPT ![p] = NoPayment]
    /\ initial' = [initial EXCEPT ![p] = "none"]
    /\ pc' = [pc EXCEPT ![p] = "idle"]
    /\ UNCHANGED <<released, lock, blocked, deliveries>>
    /\ UNCHANGED sideVars

NextPull ==
    \E p \in Procs :
        \/ CallbackArrive(p)
        \/ CallbackLoad(p)
        \/ CallbackHandle(p)
        \/ PullLoad(p)
        \/ PullUpdate(p)

SpecPull == InitPush /\ [][NextPull]_vars

\* ------------------------------------------------- the fraud review
\* A fraud method is called on the caller's instance.
FraudApply(name, r) ==
    /\ fraud' = r.pay
    /\ last' = [op |-> name, outcome |-> r.outcome, saved |-> FALSE]
    /\ UNCHANGED paymentVars
    /\ UNCHANGED <<payout, payoutRow, order>>

Call____mark_as_fraud ==
    \E message \in Messages :
        FraudApply("___mark_as_fraud", ___mark_as_fraud(fraud, message))
Call____mark_as_legit ==
    \E message \in Messages :
        FraudApply("___mark_as_legit", ___mark_as_legit(fraud, message))
Call____mark_for_check ==
    \E message \in Messages :
        FraudApply("___mark_for_check", ___mark_for_check(fraud, message))
Call_mark_as_fraud ==
    \E message \in Messages :
        FraudApply("mark_as_fraud", mark_as_fraud(fraud, message))
Call_mark_as_legit ==
    \E message \in Messages :
        FraudApply("mark_as_legit", mark_as_legit(fraud, message))

NextFraud ==
    \/ Call____mark_as_fraud
    \/ Call____mark_as_legit
    \/ Call____mark_for_check
    \/ Call_mark_as_fraud
    \/ Call_mark_as_legit

SpecFraud == Init /\ [][NextFraud]_vars

\* ------------------------------------------------------- the payout
\* A method is called on the caller's Payout; start_payout saves it.
PayoutApply(name, r) ==
    /\ payout' = r.pay
    /\ payoutRow' = IF r.saved THEN r.pay ELSE payoutRow
    /\ last' = [op |-> name, outcome |-> r.outcome, saved |-> r.saved]
    /\ UNCHANGED paymentVars
    /\ UNCHANGED <<fraud, order>>

Call_start_payout ==
    \E answer \in ClientAnswers :
        PayoutApply("start_payout", start_payout(payout, answer))
Call_mark_as_success ==
    PayoutApply("mark_as_success", mark_as_success(payout))
Call_mark_as_failed ==
    PayoutApply("mark_as_failed", mark_as_failed(payout))

NextPayout ==
    \/ Call_start_payout
    \/ Call_mark_as_success
    \/ Call_mark_as_failed

SpecPayout == Init /\ [][NextPayout]_vars

\* -------------------------------------------------------- the order
\* An order with any payments attached; the payment and the payout are as
\* created.
InitOrder ==
    /\ order \in Orders
    /\ \E required \in 1..MaxAmount :
          /\ db = AbstractPayment(required)
          /\ mem = [p \in Procs |->
                      IF p = Caller THEN AbstractPayment(required)
                      ELSE NoPayment]
          /\ serial = AbstractPayment(required)
    /\ initial = [p \in Procs |-> IF p = Caller THEN ps_NEW ELSE "none"]
    /\ released = FALSE
    /\ pc = [p \in Procs |-> "idle"]
    /\ lock = 0
    /\ blocked = [p \in Procs |-> FALSE]
    /\ deliveries = 0
    /\ last = [op |-> "create", outcome |-> "ok", saved |-> TRUE]
    /\ fraud = FraudFields
    /\ payout = AbstractPayout
    /\ payoutRow = AbstractPayout

Call_is_ready_for_payment ==
    /\ last' = [op |-> "is_ready_for_payment",
                outcome |-> is_ready_for_payment(order).outcome,
                saved |-> FALSE]
    /\ UNCHANGED paymentVars
    /\ UNCHANGED sideVars

NextOrder == Call_is_ready_for_payment

SpecOrder == InitOrder /\ [][NextOrder]_vars

\* ============================================================== claims
\* The instances the workers hold, and every call a caller can make on one.
Instances == {mem[p] : p \in {q \in Procs : mem[q].status # "none"}}

TransitionInputs ==
    {c \in [name : TransitionNames, amount : OptAmounts, answer : Answers] :
        /\ c.amount # None => c.name \in WithAmount
        /\ c.answer \in AnswersTo(c.name)}
TransitionCalls(self) ==
    {[name |-> c.name, amount |-> c.amount, answer |-> c.answer,
      r |-> CallByName(self, c.name, c.amount, c.answer)] :
        c \in TransitionInputs}

ChargeCalls(self) ==
    {[amount |-> c.amount, result |-> c.result,
      r |-> charge(self, c.amount, c.result)] :
        c \in [amount : OptAmounts, result : ChargeResults]}

FetchInputs ==
    {c \in [report : StatusReports, answer : Answers] :
        c.answer \in AnswersTo(c.report.callback)}
FetchCalls(self) ==
    {[report |-> c.report, answer |-> c.answer,
      f |-> fetch_and_update_status(self, c.report, c.answer)] :
        c \in FetchInputs}

\* The call results of every method on one instance.
CallResults(self) ==
    {c.r : c \in TransitionCalls(self)}
    \cup {c.r : c \in ChargeCalls(self)}
    \cup {c.f.call : c \in FetchCalls(self)}

\* The edges the claim declares: <<from, to, method>>.
ClaimedEdges ==
    {<<ps_NEW, ps_PREPARED, "confirm_prepared">>}
    \cup {<<s, ps_PRE_AUTH, "confirm_lock">> : s \in {ps_NEW, ps_PREPARED}}
    \cup {<<ps_PRE_AUTH, ps_IN_CHARGE, "confirm_charge_sent">>}
    \cup {<<s, ps_PARTIAL, "confirm_payment">> :
             s \in {ps_PRE_AUTH, ps_PREPARED, ps_IN_CHARGE, ps_PARTIAL}}
    \cup {<<ps_PARTIAL, ps_PAID, "mark_as_paid">>}
    \cup {<<ps_PRE_AUTH, ps_REFUNDED, "release_lock">>}
    \cup {<<s, ps_REFUND_STARTED, "start_refund">> :
             s \in {ps_PAID, ps_PARTIAL}}
    \cup {<<ps_REFUND_STARTED, ps_PARTIAL, "cancel_refund">>,
          <<ps_REFUND_STARTED, ps_PARTIAL, "confirm_refund">>}
    \cup {<<s, ps_REFUNDED, "mark_as_refunded">> :
             s \in {ps_REFUND_STARTED, ps_PARTIAL}}
    \cup {<<s, ps_FAILED, "fail">> :
             s \in {ps_NEW, ps_PRE_AUTH, ps_PREPARED}}

\* The status assignments of a call are claimed edges, chained from the
\* status before the call to the status after it.
EdgesFollow(self, r) ==
    LET n == Len(r.edges)
    IN /\ \A i \in 1..n :
             <<r.edges[i].from, r.edges[i].to, r.edges[i].via>>
                 \in ClaimedEdges
       /\ \A i \in 1..(n - 1) : r.edges[i + 1].from = r.edges[i].to
       /\ IF n = 0 THEN r.pay.status = self.status
          ELSE r.edges[1].from = self.status /\ r.edges[n].to = r.pay.status

\* C1: a new payment starts in NEW, and every change of status a method
\* makes, on any instance in any reachable state, is one of the claimed
\* edges (a call's assignments chain from the old status to the new one).
C1_StatusFollowsDeclaredEdges ==
    /\ last.op = "create" => mem[Caller].status = ps_NEW /\ db.status = ps_NEW
    /\ \A self \in Instances : \A r \in CallResults(self) :
           EdgesFollow(self, r)

\* C1 witness: charge has taken a payment through two edges, to PAID.
C1_Witness ==
    /\ last.op = "charge" /\ last.outcome = "ok"
    /\ mem[Caller].status = ps_PAID

\* C2: whenever a payment's status is PAID (an instance or the row),
\* amount_paid >= amount_required.
C2_PaidIsFullyPaid ==
    /\ \A self \in Instances :
           self.status = ps_PAID => self.amount_paid >= self.amount_required
    /\ db.status = ps_PAID => db.amount_paid >= db.amount_required

\* The amount a synchronous charge reports as charged: amount_charged when
\* the result holds it, otherwise the amount asked for.
Charged(self, c) ==
    IF c.result.kind = "amount_charged" THEN c.result.amount_charged
    ELSE IF c.amount = None THEN self.amount_locked ELSE c.amount

\* C3: after a synchronous charge succeeds on a PRE_AUTH payment,
\* amount_paid has grown by the amount charged and amount_locked has shrunk
\* by it, so their sum is what it was.
C3_ChargeConservesLedger ==
    \A self \in Instances : \A c \in ChargeCalls(self) :
        (/\ self.status = ps_PRE_AUTH
         /\ c.result.kind \in {"success", "amount_charged"}
         /\ c.r.outcome = "ok")
        => /\ c.r.pay.amount_paid = self.amount_paid + Charged(self, c)
           /\ c.r.pay.amount_locked = self.amount_locked - Charged(self, c)
           /\ c.r.pay.amount_paid + c.r.pay.amount_locked
                  = self.amount_paid + self.amount_locked

\* C4: charge(amount) with amount > amount_locked raises ValueError with no
\* processor call, nothing written and nothing saved; charge() without an
\* amount asks the processor to charge exactly amount_locked.
C4_ChargeMoreThanLocked ==
    \A self \in Instances : \A c \in ChargeCalls(self) :
        /\ (c.amount # None /\ c.amount > self.amount_locked)
               => /\ c.r.outcome = ValueError
                  /\ c.r.calls = <<>>
                  /\ c.r.pay = self
                  /\ ~c.r.saved
        /\ c.amount = None
               => c.r.calls = ProcessorCall("charge", self.amount_locked)

\* C4 witness: charge was refused with ValueError on a payment with a lock.
C4_Witness ==
    /\ last.op = "charge" /\ last.outcome = ValueError
    /\ mem[Caller].status = ps_PRE_AUTH /\ mem[Caller].amount_locked > 0

\* C5: start_refund(amount) with amount > amount_paid on a PAID or PARTIAL
\* payment raises ValueError with no processor call and the instance as it
\* was; start_refund() without an amount asks for a refund of amount_paid.
C5_RefundMoreThanPaid ==
    \A self \in Instances : \A c \in TransitionCalls(self) :
        (c.name = "start_refund" /\ self.status \in {ps_PAID, ps_PARTIAL})
        => /\ (c.amount # None /\ c.amount > self.amount_paid)
                  => /\ c.r.outcome = ValueError
                     /\ c.r.calls = <<>>
                     /\ c.r.pay = self
           /\ c.amount = None
                  => c.r.calls
                         = ProcessorCall("start_refund", self.amount_paid)

\* C5 witness: start_refund was refused with ValueError on a payment that
\* is paid in part.
C5_Witness ==
    /\ last.op = "transition" /\ last.outcome = ValueError
    /\ mem[Caller].status = ps_PARTIAL /\ mem[Caller].amount_paid > 0

\* C6: while release_lock has not run, amount_refunded <= amount_paid.
C6_RefundedAtMostPaid ==
    ~released =>
        /\ \A self \in Instances : self.amount_refunded <= self.amount_paid
        /\ db.amount_refunded <= db.amount_paid

\* C7: mark_as_refunded moves REFUND_STARTED or PARTIAL to REFUNDED exactly
\* when amount_refunded = amount_paid and otherwise leaves the payment as
\* it is; a REFUNDED payment whose lock was not released has
\* amount_refunded = amount_paid.
C7_MarkAsRefundedGuard ==
    \A self \in Instances : \A c \in TransitionCalls(self) :
        (/\ c.name = "mark_as_refunded"
         /\ self.status \in {ps_REFUND_STARTED, ps_PARTIAL})
        => IF self.amount_refunded = self.amount_paid
           THEN c.r.outcome = "ok"
                /\ c.r.pay = [self EXCEPT !.status = ps_REFUNDED]
           ELSE c.r.outcome = TransitionNotAllowed /\ c.r.pay = self

C7_RefundedIsFullRefund ==
    /\ C7_MarkAsRefundedGuard
    /\ ~released =>
           /\ \A self \in Instances :
                  self.status = ps_REFUNDED
                      => self.amount_refunded = self.amount_paid
           /\ db.status = ps_REFUNDED
                  => db.amount_refunded = db.amount_paid

\* C8: callback requests for the payment run one at a time: at most one
\* request holds a loaded instance, it holds the row lock and its instance
\* is the committed row, and the row always equals the result of running
\* the committed callbacks one after the other in commit order.
C8_CallbacksSerialized ==
    /\ Cardinality({p \in Procs : pc[p] = "loaded"}) <= 1
    /\ \A p \in Procs : pc[p] = "loaded" => lock = p /\ mem[p] = db
    /\ db = serial

\* C8 witness: a request that arrived while the row was locked has loaded
\* the payment, and reads what the earlier callbacks paid.
C8_Witness ==
    \E p \in Procs :
        /\ pc[p] = "loaded" /\ blocked[p]
        /\ mem[p].status = ps_PARTIAL /\ mem[p].amount_paid > 0
        /\ deliveries >= 2

\* What the claims declare: a transition's sources and its condition.
ClaimedSources(name) == {e[1] : e \in {x \in ClaimedEdges : x[3] = name}}
ClaimedCondition(self, name) ==
    CASE name = "mark_as_paid" -> self.amount_paid >= self.amount_required
      [] name = "mark_as_refunded" -> self.amount_refunded = self.amount_paid
      [] OTHER -> TRUE
ClaimedCanProceed(self, name) ==
    self.status \in ClaimedSources(name) /\ ClaimedCondition(self, name)

\* C9: a transition called from a status that is not one of its sources, or
\* with its condition false, raises TransitionNotAllowed; the instance is
\* as it was, no status is assigned and no processor method is invoked.
C9_RefusedTransitionChangesNothing ==
    \A self \in Instances : \A c \in TransitionCalls(self) :
        ~ClaimedCanProceed(self, c.name)
        => /\ c.r.outcome = TransitionNotAllowed
           /\ c.r.pay = self
           /\ c.r.calls = <<>>
           /\ c.r.edges = <<>>

\* C9 witness: a transition was refused on a payment that is paid in part
\* (mark_as_paid among the refused ones).
C9_Witness ==
    /\ last.op = "transition" /\ last.outcome = TransitionNotAllowed
    /\ mem[Caller].status = ps_PARTIAL
    /\ mem[Caller].amount_paid > 0
    /\ ~fully_paid(mem[Caller])

\* What fetch_and_update_status leaves alone when it runs no callback.
PullUntouched(self, f) ==
    /\ f.call.outcome = "ok"
    /\ f.call.pay = self
    /\ f.call.calls = <<>>
    /\ ~f.call.saved
    /\ ~f.report.saved

\* What it does when it runs the callback r0 to its end.
PullApplied(f, r0) ==
    /\ f.call.outcome = "ok"
    /\ f.call.pay = r0.pay
    /\ f.call.saved
    /\ f.report.saved

\* C10 as claimed: a proposed callback that can proceed is applied with the
\* reported amount, the payment is saved and the report says saved; with no
\* callback, or one that cannot proceed, nothing is changed or saved.
C10_PullAppliesProposedCallback ==
    \A self \in Instances : \A c \in FetchCalls(self) :
        LET cb == c.report.callback
        IN IF cb # NoCallback /\ ClaimedCanProceed(self, cb)
           THEN PullApplied(c.f, CallByName(self, cb, c.report.amount,
                                            c.answer))
           ELSE PullUntouched(self, c.f)

\* C10 amended: as claimed when the callback returns; when the callback
\* raises, nothing is saved and no report says saved.
C10_PullAppliesCallbackThatReturns ==
    \A self \in Instances : \A c \in FetchCalls(self) :
        LET cb == c.report.callback
            r0 == CallByName(self, cb, c.report.amount, c.answer)
        IN IF cb # NoCallback /\ ClaimedCanProceed(self, cb)
           THEN IF r0.outcome = "ok" THEN PullApplied(c.f, r0)
                ELSE ~c.f.call.saved /\ ~c.f.report.saved
           ELSE PullUntouched(self, c.f)

\* C10 witness: a PULL run has applied confirm_payment and saved it.
C10_Witness ==
    /\ last.op = "fetch_and_update_status"
    /\ last.outcome = "ok" /\ last.saved
    /\ mem[Caller].status = ps_PARTIAL /\ mem[Caller].amount_paid > 0
    /\ db = mem[Caller]

\* C11: when the proposed callback can proceed and raises GetPaidException
\* or TransitionNotAllowed, fetch_and_update_status returns (the exception
\* does not propagate), the status report holds the exception under
\* "exception" and no saved=True, and the method does not save.
C11_PullReturnsCaughtException ==
    \A self \in Instances : \A c \in FetchCalls(self) :
        LET cb == c.report.callback
            r0 == CallByName(self, cb, c.report.amount, c.answer)
        IN (/\ cb # NoCallback
            /\ can_proceed(self, cb)
            /\ r0.outcome \in {GetPaidException, TransitionNotAllowed})
           => /\ c.f.call.outcome = "ok"
              /\ c.f.report.exception = r0.outcome
              /\ ~c.f.report.saved
              /\ ~c.f.call.saved

\* C11 witness: a PULL run proposed release_lock, the gateway raised after
\* the body had moved the locked amount, and the row was not written.
C11_Witness ==
    /\ last.op = "fetch_and_update_status"
    /\ last.outcome = "ok" /\ ~last.saved
    /\ mem[Caller].status = ps_PRE_AUTH
    /\ mem[Caller].amount_locked = 0 /\ mem[Caller].amount_refunded > 0
    /\ db.status = ps_PRE_AUTH
    /\ db.amount_locked > 0 /\ db.amount_refunded = 0

\* The fraud edges the claim declares: <<from, to, method>>.
ClaimedFraudEdges ==
    {<<fs_UNKNOWN, fs_REJECTED, "___mark_as_fraud">>,
     <<fs_UNKNOWN, fs_ACCEPTED, "___mark_as_legit">>,
     <<fs_UNKNOWN, fs_CHECK, "___mark_for_check">>,
     <<fs_CHECK, fs_REJECTED, "mark_as_fraud">>,
     <<fs_CHECK, fs_ACCEPTED, "mark_as_legit">>}
FraudCalls(self) ==
    {[name |-> c.name, message |-> c.message,
      r |-> FraudCallByName(self, c.name, c.message)] :
        c \in [name : FraudMethods, message : Messages]}

\* C12: fraud_status starts at UNKNOWN; every fraud method, called in any
\* reachable state, either leaves fraud_status alone or moves it along one
\* of the five declared edges; mark_as_fraud and mark_as_legit are refused
\* outside CHECK; from ACCEPTED or REJECTED no method changes fraud_status.
C12_FraudStatusFollowsDeclaredEdges ==
    /\ last.op = "create" => fraud.fraud_status = fs_UNKNOWN
    /\ \A c \in FraudCalls(fraud) :
          /\ c.r.pay.fraud_status # fraud.fraud_status
             => <<fraud.fraud_status, c.r.pay.fraud_status, c.name>>
                    \in ClaimedFraudEdges
          /\ \A i \in 1..Len(c.r.edges) :
                <<c.r.edges[i].from, c.r.edges[i].to, c.r.edges[i].via>>
                    \in ClaimedFraudEdges
          /\ (c.name \in {"mark_as_fraud", "mark_as_legit"}
               /\ fraud.fraud_status # fs_CHECK)
             => c.r.outcome = TransitionNotAllowed /\ c.r.pay = fraud
          /\ fraud.fraud_status \in {fs_ACCEPTED, fs_REJECTED}
             => c.r.pay.fraud_status = fraud.fraud_status

\* C12 witness: a payment marked for check and accepted by a reviewer; a
\* later mark_as_fraud was refused.
C12_Witness ==
    /\ fraud.fraud_status = fs_ACCEPTED
    /\ Len(fraud.fraud_message) = 3
    /\ fraud.fraud_message[2] = MANUAL_ACCEPT
    /\ last.op = "mark_as_fraud"
    /\ last.outcome = TransitionNotAllowed

\* Every call a caller can make on a Payout instance.
PayoutCalls(self) ==
    {[name |-> "start_payout", r |-> start_payout(self, a)] :
        a \in ClientAnswers}
    \cup {[name |-> "mark_as_success", r |-> mark_as_success(self)],
          [name |-> "mark_as_failed", r |-> mark_as_failed(self)]}
ClaimedPayoutEdges ==
    {<<PayoutStatus_NEW, PayoutStatus_SUCCESS, "mark_as_success">>,
     <<PayoutStatus_NEW, PayoutStatus_FAILED, "mark_as_failed">>}

\* C13: a Payout starts at NEW; every call of start_payout, mark_as_success
\* or mark_as_failed, in any reachable state, leaves the status alone or
\* moves it NEW->SUCCESS by mark_as_success or NEW->FAILED by
\* mark_as_failed; from SUCCESS or FAILED no call changes the status, on
\* the instance or in the row.
C13_PayoutStatusIsFinal ==
    /\ last.op = "create" => payout.status = PayoutStatus_NEW
    /\ payoutRow.status # PayoutStatus_NEW => payout.status = payoutRow.status
    /\ \A c \in PayoutCalls(payout) :
          /\ \A i \in 1..Len(c.r.edges) :
                <<c.r.edges[i].from, c.r.edges[i].to, c.r.edges[i].via>>
                    \in ClaimedPayoutEdges
          /\ c.r.pay.status # payout.status
             => /\ payout.status = PayoutStatus_NEW
                /\ c.r.pay.status
                      \in {PayoutStatus_SUCCESS, PayoutStatus_FAILED}
                /\ Len(c.r.edges) = 1
          /\ payout.status \in {PayoutStatus_SUCCESS, PayoutStatus_FAILED}
             => c.r.pay.status = payout.status /\ ~c.r.saved

\* C13 witness: start_payout was called on a SUCCESS payout, the gateway
\* refused it, and the status stayed SUCCESS.
C13_Witness ==
    /\ payout.status = PayoutStatus_SUCCESS
    /\ payout.failed_code # Blank
    /\ last.op = "start_payout"
    /\ last.outcome = TransitionNotAllowed

\* C14: start_payout on a NEW payout: when the client returns a response,
\* external_id is the returned payoutId, the status is SUCCESS, failed_code
\* is blank, the payout is saved and the call returns; when the client
\* raises PayoutFailure, failed_code is the response's status code, the
\* status is FAILED, the payout is saved and PayoutFailure is raised to the
\* caller; nothing else is saved.  The row written is the instance.
C14_StartPayoutOutcomes ==
    /\ payout.status = PayoutStatus_NEW
       => \A a \in ClientAnswers :
            LET r == start_payout(payout, a)
            IN /\ a.kind = "response"
                  => /\ r.outcome = "ok" /\ r.saved
                     /\ r.pay.status = PayoutStatus_SUCCESS
                     /\ r.pay.external_id = a.payoutId
                     /\ r.pay.failed_code = Blank
               /\ a.kind = "PayoutFailure"
                  => /\ r.outcome = PayoutFailure /\ r.saved
                     /\ r.pay.status = PayoutStatus_FAILED
                     /\ r.pay.failed_code = a.code
               /\ a.kind \notin {"response", "PayoutFailure"}
                  => ~r.saved /\ r.pay = payout
    /\ (last.op = "start_payout" /\ last.saved)
       => /\ payoutRow = payout
          /\ \/ /\ last.outcome = "ok"
                /\ payoutRow.status = PayoutStatus_SUCCESS
                /\ payoutRow.external_id # Blank
                /\ payoutRow.failed_code = Blank
             \/ /\ last.outcome = PayoutFailure
                /\ payoutRow.status = PayoutStatus_FAILED
                /\ payoutRow.failed_code # Blank

\* C14 witness: start_payout met a PayoutFailure; the payout is saved as
\* FAILED with the gateway's code and the failure reached the caller.
C14_Witness ==
    /\ last.op = "start_payout"
    /\ last.outcome = PayoutFailure /\ last.saved
    /\ payoutRow.status = PayoutStatus_FAILED
    /\ payoutRow.failed_code # Blank
    /\ payout = payoutRow

\* Every payment attached to the order has status FAILED (or none is).
EveryPaymentFailed(self) ==
    \A i \in 1..Len(self.payments) : self.payments[i].status = ps_FAILED

\* C15: is_ready_for_payment returns True exactly when every payment of the
\* order has status FAILED (or the order has none) and raises
\* ValidationError exactly when some payment has another status; the call
\* just made answered so.
C15_ReadyIffEveryPaymentFailed ==
    LET r == is_ready_for_payment(order)
    IN /\ EveryPaymentFailed(order) <=> (r.outcome = "ok" /\ r.value = TRUE)
       /\ ~EveryPaymentFailed(order) <=> r.outcome = ValidationError
       /\ last.op = "is_ready_for_payment"
          => (last.outcome = "ok" <=> EveryPaymentFailed(order))

\* C15 witness: the order has a FAILED payment and one that is not FAILED,
\* and is_ready_for_payment raised ValidationError.
C15_Witness ==
    /\ last.op = "is_ready_for_payment"
    /\ last.outcome = ValidationError
    /\ \E i, j \in 1..Len(order.payments) :
          /\ order.payments[i].status = ps_FAILED
          /\ order.payments[j].status = ps_PAID

\* C16: whatever PULL runs and callback requests interleave, the committed
\* row holds the status and the amounts that the committed updates give
\* when each is applied to the row the one before it left: no update is
\* computed from a stale copy and written over a later one.
C16_PullNeverOverwritesFromStaleCopy ==
    /\ db.status = serial.status
    /\ db.amount_paid = serial.amount_paid
    /\ db.amount_locked = serial.amount_locked
    /\ db.amount_refunded = serial.amount_refunded

=============================================================================
